---- MODULE Spec2Model ----
(***************************************************************************)
(* A model of search_engine_api.py: the /search request handler            *)
(* (process_query) and the image filter it calls                           *)
(* (filter_images_by_query, preprocess_query, extract_keywords_from_image, *)
(* extract_text_from_image).                                               *)
(*                                                                         *)
(* Strings are sequences of one-character strings, so that lower(),        *)
(* strip(), endswith(), the tokenizers and Python's `in` (substring) are   *)
(* computed and not assumed.                                               *)
(***************************************************************************)
EXTENDS Naturals, Sequences, FiniteSets, TLC

\* ------------------------------------------------------------------------
\* Characters and the str methods the program uses
\* ------------------------------------------------------------------------

LowerLetters == {"a", "b", "c", "d", "g", "i", "j", "n", "o", "p", "s", "t", "x"}

UpperLetters == {"B", "C", "G", "J", "P"}

\* str.isspace() on one character.
IsSpace(c) == c \in {" ", "\n"}

\* string.punctuation restricted to the characters of the model's inputs.
PunctuationChars == {".", "'"}

\* \w of the tokenizers' regular expressions.
IsWordChar(c) == c \in LowerLetters \cup UpperLetters

\* str.lower() on one character.
LowerChar(c) ==
  CASE c = "B" -> "b"
    [] c = "C" -> "c"
    [] c = "G" -> "g"
    [] c = "J" -> "j"
    [] c = "P" -> "p"
    [] OTHER -> c

\* str.lower()
Lower(s) == [i \in 1..Len(s) |-> LowerChar(s[i])]

\* ord() of the characters a ranked phrase can hold (ASCII).
Ord(c) ==
  CASE c = " " -> 32
    [] c = "'" -> 39
    [] c = "." -> 46
    [] c = "a" -> 97
    [] c = "c" -> 99
    [] c = "d" -> 100
    [] c = "g" -> 103
    [] c = "i" -> 105
    [] c = "n" -> 110
    [] c = "o" -> 111
    [] c = "s" -> 115
    [] c = "t" -> 116
    [] OTHER -> 0

\* Python's str < str: lexicographic by code point, a proper prefix first.
RECURSIVE StrLess(_, _)
StrLess(a, b) ==
  IF b = <<>> THEN FALSE
  ELSE IF a = <<>> THEN TRUE
  ELSE IF Ord(Head(a)) # Ord(Head(b)) THEN Ord(Head(a)) < Ord(Head(b))
  ELSE StrLess(Tail(a), Tail(b))

\* bool(s.strip()): some character of s is not whitespace.
StripNonEmpty(s) == \E i \in 1..Len(s) : ~IsSpace(s[i])

\* s.endswith(suffix)
EndsWith(s, suffix) ==
  /\ Len(suffix) <= Len(s)
  /\ SubSeq(s, Len(s) - Len(suffix) + 1, Len(s)) = suffix

\* Python's `sub in s` on strings: sub occurs in s as a contiguous run.
Contains(s, sub) ==
  \E i \in 0..(Len(s) - Len(sub)) : SubSeq(s, i + 1, i + Len(sub)) = sub

\* " ".join(parts)
RECURSIVE JoinSpace(_)
JoinSpace(parts) ==
  IF parts = <<>> THEN <<>>
  ELSE IF Len(parts) = 1 THEN parts[1]
  ELSE parts[1] \o <<" ">> \o JoinSpace(Tail(parts))

\* str.split(): the maximal runs of non-whitespace characters, in order.
RECURSIVE SplitWhitespace(_, _, _)
SplitWhitespace(s, cur, acc) ==
  IF s = <<>> THEN (IF cur = <<>> THEN acc ELSE Append(acc, cur))
  ELSE IF IsSpace(Head(s))
    THEN SplitWhitespace(Tail(s), <<>>, IF cur = <<>> THEN acc ELSE Append(acc, cur))
    ELSE SplitWhitespace(Tail(s), Append(cur, Head(s)), acc)

\* ------------------------------------------------------------------------
\* Words of the model's inputs
\* ------------------------------------------------------------------------

w_cat == <<"c", "a", "t">>

w_Cat == <<"C", "a", "t">>

w_Cats == <<"C", "a", "t", "s">>

w_dog == <<"d", "o", "g">>

w_dogdot == <<"d", "o", "g", ".">>

w_is == <<"i", "s">>

w_a == <<"a">>

w_do == <<"d", "o">>

w_don == <<"d", "o", "n">>

w_dont == <<"d", "o", "n", "'", "t">>

w_nt == <<"n", "'", "t">>

w_t == <<"t">>

w_s == <<"s">>

\* english_stop_words: NLTK's English stopword list, restricted to the words
\* that can be written with the model's characters and occur in its inputs.
english_stop_words == {w_is, w_a, w_do, w_don, w_dont, w_t, w_s}

\* ------------------------------------------------------------------------
\* nltk.tokenize.word_tokenize, as preprocess_query calls it
\* ------------------------------------------------------------------------

\* The Treebank rule  ([^' ])(n't)<space>  ->  \1 n't : a chunk that ends in
\* n't after at least one character other than an apostrophe is cut in two.
\* It is the one Treebank rule that applies to the model's queries, which
\* hold letters, apostrophes inside a word and whitespace only.
TreebankSplit(chunk) ==
  IF /\ Len(chunk) > 3
     /\ SubSeq(chunk, Len(chunk) - 2, Len(chunk)) = w_nt
     /\ chunk[Len(chunk) - 3] # "'"
  THEN <<SubSeq(chunk, 1, Len(chunk) - 3), w_nt>>
  ELSE <<chunk>>

RECURSIVE FlatMapTreebank(_)
FlatMapTreebank(chunks) ==
  IF chunks = <<>> THEN <<>>
  ELSE TreebankSplit(Head(chunks)) \o FlatMapTreebank(Tail(chunks))

\* word_tokenize(s): the tokens of s, in order.
word_tokenize(s) == FlatMapTreebank(SplitWhitespace(s, <<>>, <<>>))

\* [x for x in seq if keep(x)]
RECURSIVE FilterSeq(_, _)
FilterSeq(seq, drop) ==
  IF seq = <<>> THEN <<>>
  ELSE IF Head(seq) \in drop THEN FilterSeq(Tail(seq), drop)
  ELSE <<Head(seq)>> \o FilterSeq(Tail(seq), drop)

\* list(dict.fromkeys(seq)): the first occurrence of each element.
RECURSIVE Dedup(_, _)
Dedup(seq, seen) ==
  IF seq = <<>> THEN <<>>
  ELSE IF Head(seq) \in seen THEN Dedup(Tail(seq), seen)
  ELSE <<Head(seq)>> \o Dedup(Tail(seq), seen \cup {Head(seq)})

\* preprocess_query returning each surviving token once.
preprocess_query_unique(query) ==
  Dedup(FilterSeq(word_tokenize(Lower(query)), english_stop_words), {})

\* preprocess_query(query): the list of the lower-cased query's tokens that
\* are not stopwords, in query order (a Python list: repeats are kept).
preprocess_query(query) == FilterSeq(word_tokenize(Lower(query)), english_stop_words)

\* ------------------------------------------------------------------------
\* rake_nltk.Rake (1.0.6 defaults), as extract_keywords_from_image calls it
\* ------------------------------------------------------------------------

\* nltk.tokenize.wordpunct_tokenize: the regular expression \w+|[^\w\s]+,
\* the maximal runs of word characters and of other non-space characters.
RECURSIVE wordpunct_tokenize(_, _, _)
wordpunct_tokenize(s, cur, acc) ==
  IF s = <<>> THEN (IF cur = <<>> THEN acc ELSE Append(acc, cur))
  ELSE IF IsSpace(Head(s))
    THEN wordpunct_tokenize(Tail(s), <<>>, IF cur = <<>> THEN acc ELSE Append(acc, cur))
  ELSE IF cur = <<>> \/ IsWordChar(cur[1]) = IsWordChar(Head(s))
    THEN wordpunct_tokenize(Tail(s), Append(cur, Head(s)), acc)
  ELSE wordpunct_tokenize(Tail(s), <<Head(s)>>, Append(acc, cur))

\* Rake.to_ignore: the stopwords and the single punctuation characters.
to_ignore == english_stop_words \cup {<<c>> : c \in PunctuationChars}

\* Rake._get_phrase_list_from_words: the maximal runs of words that are not
\* in to_ignore (itertools.groupby), each a tuple of words.
RECURSIVE GroupPhrases(_, _, _)
GroupPhrases(words, cur, acc) ==
  IF words = <<>> THEN (IF cur = <<>> THEN acc ELSE Append(acc, cur))
  ELSE IF Head(words) \in to_ignore
    THEN GroupPhrases(Tail(words), <<>>, IF cur = <<>> THEN acc ELSE Append(acc, cur))
    ELSE GroupPhrases(Tail(words), Append(cur, Head(words)), acc)

\* Rake._generate_phrases: the phrase list of the text, repeats kept. The
\* text's sentences end at a full stop, which is a token of to_ignore, so
\* grouping the whole text's words gives the phrases of its sentences.
GeneratePhrases(text) ==
  LET toks == wordpunct_tokenize(text, <<>>, <<>>)
  IN GroupPhrases([i \in 1..Len(toks) |-> Lower(toks[i])], <<>>, <<>>)

\* The number of places of seq that hold x.
CountIn(seq, x) == Cardinality({i \in 1..Len(seq) : seq[i] = x})

RECURSIVE SumOver(_, _, _)
SumOver(phrases, w, weighted) ==
  IF phrases = <<>> THEN 0
  ELSE CountIn(Head(phrases), w) * (IF weighted THEN Len(Head(phrases)) ELSE 1)
       + SumOver(Tail(phrases), w, weighted)

\* Rake._build_frequency_dist: occurrences of w over all phrases.
Frequency(phrases, w) == SumOver(phrases, w, FALSE)

\* Rake._build_word_co_occurance_graph: degree[w] is the sum of w's row of
\* the co-occurrence graph, one count per (w, coword) of product(phrase,
\* phrase): occurrences of w in the phrase times the phrase's length.
Degree(phrases, w) == SumOver(phrases, w, TRUE)

WordsOf(phrases) == UNION {{p[i] : i \in 1..Len(p)} : p \in {phrases[k] : k \in 1..Len(phrases)}}

RECURSIVE ProductOf(_, _)
ProductOf(phrases, ws) ==
  IF ws = {} THEN 1
  ELSE LET w == CHOOSE x \in ws : TRUE
       IN Frequency(phrases, w) * ProductOf(phrases, ws \ {w})

\* Rake._build_ranklist's rank of a phrase, the sum of degree/frequency over
\* its words, times the product of all frequencies: an exact integer with
\* the order of the ratios' sums (Python adds the ratios as floats).
RECURSIVE PhraseRank(_, _, _)
PhraseRank(phrases, p, scale) ==
  IF p = <<>> THEN 0
  ELSE Degree(phrases, Head(p)) * (scale \div Frequency(phrases, Head(p)))
       + PhraseRank(phrases, Tail(p), scale)

\* (rank, phrase) tuples compare by rank, then by the phrase string.
EntryLess(a, b) ==
  \/ a.rank < b.rank
  \/ a.rank = b.rank /\ StrLess(a.phrase, b.phrase)

\* list.sort(reverse=True): descending; equal entries are identical.
RECURSIVE InsertDesc(_, _)
InsertDesc(sorted, e) ==
  IF sorted = <<>> THEN <<e>>
  ELSE IF EntryLess(Head(sorted), e) THEN <<e>> \o sorted
  ELSE <<Head(sorted)>> \o InsertDesc(Tail(sorted), e)

RECURSIVE SortDesc(_, _)
SortDesc(entries, acc) ==
  IF entries = <<>> THEN acc
  ELSE SortDesc(Tail(entries), InsertDesc(acc, Head(entries)))

\* Rake.extract_keywords_from_text followed by the value get_ranked_phrases
\* returns: the phrases joined by spaces, highest rank first.
RankedPhrases(text) ==
  LET phrases == GeneratePhrases(text)
      scale == ProductOf(phrases, WordsOf(phrases))
      entries == [k \in 1..Len(phrases) |->
                    [rank |-> PhraseRank(phrases, phrases[k], scale),
                     phrase |-> JoinSpace(phrases[k])]]
      sorted == SortDesc(entries, <<>>)
  IN [k \in 1..Len(sorted) |-> sorted[k].phrase]

\* ------------------------------------------------------------------------
\* The bounded inputs
\* ------------------------------------------------------------------------

\* Words a query is written with, and the most words of one query.
QueryVocabulary == {w_Cat, w_dog, w_is, w_dont, <<>>}

MaxQueryWords == 2

\* Words an image's text is written with, and the most words of one text.
TextVocabulary == {w_Cats, w_dogdot, w_is}

MaxTextWords == 2

\* The strings of at most n words of vocab, joined by single spaces (an empty
\* word gives leading, trailing and doubled spaces, and whitespace only).
SentencesOf(vocab, n) ==
  UNION {{JoinSpace(ws) : ws \in [1..k -> vocab]} : k \in 0..n}

Queries == SentencesOf(QueryVocabulary, MaxQueryWords)

Texts == SentencesOf(TextVocabulary, MaxTextWords)

\* What pytesseract.image_to_string does on one image file: it returns a text
\* or (PILImage.open or tesseract failing) raises.
OcrText(s) == [ok |-> TRUE, text |-> s]

OcrRaises == [ok |-> FALSE, text |-> <<>>]

f_a == <<"a", ".", "p", "n", "g">>

f_B == <<"B", ".", "J", "P", "G">>

f_n == <<"n", ".", "t", "x", "t">>

t_CatsDog == JoinSpace(<<w_Cats, w_dogdot>>)

t_blank == <<" ", "\n">>

MkCorpus(a, b) == (f_a :> a) @@ (f_B :> b) @@ (f_n :> OcrText(t_CatsDog))

\* The directories the filter is checked on: a.png holds any text, among
\* them the empty one, or whitespace only, or OCR fails on it.
Corpora ==
  {MkCorpus(a, b) : a \in {OcrText(s) : s \in Texts \cup {t_blank}} \cup {OcrRaises},
                    b \in {OcrText(t_CatsDog), OcrRaises}}

\* The directories of the request handler's and the concurrent runs.
SmallCorpora ==
  {MkCorpus(OcrText(t_CatsDog), OcrRaises),
   MkCorpus(OcrText(t_blank), OcrText(JoinSpace(<<w_dogdot, w_is, w_Cats>>))),
   MkCorpus(OcrText(w_Cats), OcrText(JoinSpace(<<w_dogdot, w_is, w_Cats>>)))}

q_CatDog == JoinSpace(<<w_Cat, w_dog>>)

HandlerQueries == {<<>>, q_CatDog, w_is}

ConcQueries == {w_Cat, w_dog}

\* Paths a request can name as image_dir, and what the file system holds
\* there: the image directory, nothing, or a regular file.
DefaultImageDir == "images/"

PathKind(path) ==
  CASE path = "images/" -> "dir"
    [] path = "missing/" -> "missing"
    [] path = "app.py" -> "file"

Paths == {"images/", "missing/", "app.py"}

Threads == {"t1", "t2"}

\* ------------------------------------------------------------------------
\* State
\* ------------------------------------------------------------------------

VARIABLES
  corpus,          \* the files of images/ and what OCR does on each
  pc,              \* each request thread's position
  args,            \* its request parameters (or call arguments)
  core_keywords,   \* filter_images_by_query's core_keywords
  todo,            \* the entries of os.listdir not yet iterated
  image_file,      \* the loop's image_file
  text,            \* extract_keywords_from_image's text
  keywords,        \* the loop's keywords
  filtered_images, \* the result maps, by owner
  rake,            \* the Rake objects, by owner
  pdfs,            \* process_query's pdfs
  videos,          \* process_query's videos
  image_keywords,  \* the value filter_images_by_query returned
  response,        \* the HTTP response
  calls            \* the functions each thread has invoked, in order

vars == <<corpus, pc, args, core_keywords, todo, image_file, text, keywords,
          filtered_images, rake, pdfs, videos, image_keywords, response, calls>>

EmptyMap == [x \in {} |-> x]

NoValue == [error |-> FALSE, set |-> FALSE]

NoArgs == [route |-> "none", query |-> <<>>, youtube_api_key |-> "", image_dir |-> ""]

FreshRake == [built |-> FALSE, ranked_phrases |-> <<>>]

Call(op, file, txt, ret) == [op |-> op, file |-> file, text |-> txt, ret |-> ret]

InitLocals(active) ==
  /\ pc = [t \in Threads |-> IF t \in active THEN "idle" ELSE "off"]
  /\ args = [t \in Threads |-> NoArgs]
  /\ core_keywords = [t \in Threads |-> <<>>]
  /\ todo = [t \in Threads |-> {}]
  /\ image_file = [t \in Threads |-> <<>>]
  /\ text = [t \in Threads |-> <<>>]
  /\ keywords = [t \in Threads |-> <<>>]
  /\ filtered_images = [t \in Threads |-> EmptyMap]
  /\ rake = [t \in Threads |-> FreshRake]
  /\ pdfs = [t \in Threads |-> NoValue]
  /\ videos = [t \in Threads |-> NoValue]
  /\ image_keywords = [t \in Threads |-> NoValue]
  /\ response = [t \in Threads |-> [status |-> 0]]
  /\ calls = [t \in Threads |-> <<>>]

\* One request to /search at a time.
Init == corpus \in SmallCorpora /\ InitLocals({"t1"})

\* One direct call of filter_images_by_query.
InitFilter == corpus \in Corpora /\ InitLocals({"t1"})

\* Two threads calling filter_images_by_query at once.
InitConc == corpus \in SmallCorpora /\ InitLocals(Threads)

\* ------------------------------------------------------------------------
\* Helpers of the operations
\* ------------------------------------------------------------------------

\* request.args.get(name, default)
ArgGet(present, value, default) == IF present THEN value ELSE default

\* The check of line 140 with `and` for `or`.
MissingParameterBoth(query, key) == query = <<>> /\ key = ""

\* Line 140: not query or not youtube_api_key.
MissingParameter(query, key) == query = <<>> \/ key = ""

\* Lines 62-64 left out: every path is taken to exist.
DirExistsAlways(path) == TRUE

\* os.path.exists(image_dir)
DirExists(path) == PathKind(path) # "missing"

\* image_file.lower().endswith((".png", ".jpg", ".jpeg"))
IsImageFile(f) ==
  \/ EndsWith(Lower(f), <<".", "p", "n", "g">>)
  \/ EndsWith(Lower(f), <<".", "j", "p", "g">>)
  \/ EndsWith(Lower(f), <<".", "j", "p", "e", "g">>)

\* extract_text_from_image without its try/except: the exception leaves it.
extract_text_uncaught(outcome) ==
  [raised |-> ~outcome.ok, text |-> IF outcome.ok THEN outcome.text ELSE <<>>]

\* extract_text_from_image: the text, or "" when anything in it raised.
extract_text_from_image(outcome) ==
  [raised |-> FALSE, text |-> IF outcome.ok THEN outcome.text ELSE <<>>]

\* Line 72 with == for `in`: a keyword phrase must equal the query token.
AnyEqual(core, kws) ==
  \E i \in 1..Len(core) : \E j \in 1..Len(kws) : Lower(kws[j]) = core[i]

\* Line 72 with all() for any().
AllMatch(core, kws) ==
  \A i \in 1..Len(core) : \A j \in 1..Len(kws) : Contains(Lower(kws[j]), core[i])

\* Line 72: any(core_keyword in keyword.lower() for core_keyword in
\* core_keywords for keyword in keywords)
AnyMatch(core, kws) ==
  \E i \in 1..Len(core) : \E j \in 1..Len(kws) : Contains(Lower(kws[j]), core[i])

\* f"/images/{image_file}"
ImagePath(f) == <<"/", "i", "m", "a", "g", "e", "s", "/">> \o f

\* One module-level Rake, and one module-level result map, for every call.
RakeOwnerShared(t) == "t1"

MapOwnerShared(t) == "t1"

\* The local variable rake of one call of extract_keywords_from_image, and
\* the local variable filtered_images of one call of filter_images_by_query:
\* each thread's call has its own.
RakeOwner(t) == t

MapOwner(t) == t

\* search_google_scholar and search_youtube: the list the service gave, or
\* the error value when anything in the try block raised.
SearchResult(outcome) == [error |-> outcome = "raise", set |-> TRUE]

Continue(t) == IF args[t].route = "search" THEN "respond" ELSE "done"

\* ------------------------------------------------------------------------
\* process_query
\* ------------------------------------------------------------------------

\* Lines 136-138: the request's parameters, each present or not.
Request(t) ==
  /\ pc[t] = "idle"
  /\ \E hq \in BOOLEAN, q \in HandlerQueries, hk \in BOOLEAN, k \in {"", "KEY"},
        hd \in BOOLEAN, d \in Paths :
       args' = [args EXCEPT ![t] =
                  [route |-> "search",
                   query |-> ArgGet(hq, q, <<>>),
                   youtube_api_key |-> ArgGet(hk, k, ""),
                   image_dir |-> ArgGet(hd, d, DefaultImageDir)]]
  /\ pc' = [pc EXCEPT ![t] = "validate"]
  /\ UNCHANGED <<corpus, core_keywords, todo, image_file, text, keywords,
                 filtered_images, rake, pdfs, videos, image_keywords, response, calls>>

\* Lines 140-141.
Validate(t) ==
  /\ pc[t] = "validate"
  /\ IF MissingParameter(args[t].query, args[t].youtube_api_key)
       THEN /\ response' = [response EXCEPT ![t] = [status |-> 400, fields |-> {"error"}]]
            /\ pc' = [pc EXCEPT ![t] = "done"]
       ELSE /\ pc' = [pc EXCEPT ![t] = "scholar"]
            /\ UNCHANGED response
  /\ UNCHANGED <<corpus, args, core_keywords, todo, image_file, text, keywords,
                 filtered_images, rake, pdfs, videos, image_keywords, calls>>

\* Line 144, search_google_scholar (lines 80-96).
Scholar(t) ==
  /\ pc[t] = "scholar"
  /\ \E outcome \in {"ok", "raise"} :
       pdfs' = [pdfs EXCEPT ![t] = SearchResult(outcome)]
  /\ calls' = [calls EXCEPT ![t] = Append(@, Call("search_google_scholar", <<>>, <<>>, <<>>))]
  /\ pc' = [pc EXCEPT ![t] = "youtube"]
  /\ UNCHANGED <<corpus, args, core_keywords, todo, image_file, text, keywords,
                 filtered_images, rake, videos, image_keywords, response>>

\* Line 145, search_youtube (lines 99-121).
Youtube(t) ==
  /\ pc[t] = "youtube"
  /\ \E outcome \in {"ok", "raise"} :
       videos' = [videos EXCEPT ![t] = SearchResult(outcome)]
  /\ calls' = [calls EXCEPT ![t] = Append(@, Call("search_youtube", <<>>, <<>>, <<>>))]
  /\ pc' = [pc EXCEPT ![t] = "filter"]
  /\ UNCHANGED <<corpus, args, core_keywords, todo, image_file, text, keywords,
                 filtered_images, rake, pdfs, image_keywords, response>>

\* Lines 149-153.
Respond(t) ==
  /\ pc[t] = "respond"
  /\ response' = [response EXCEPT ![t] =
                    [status |-> 200, fields |-> {"pdfs", "videos", "image_keywords"}]]
  /\ pc' = [pc EXCEPT ![t] = "done"]
  /\ UNCHANGED <<corpus, args, core_keywords, todo, image_file, text, keywords,
                 filtered_images, rake, pdfs, videos, image_keywords, calls>>

\* An exception that leaves process_query: Flask answers 500.
Abort(t) ==
  /\ pc[t] = "raised"
  /\ args[t].route = "search"
  /\ response' = [response EXCEPT ![t] = [status |-> 500, fields |-> {}]]
  /\ pc' = [pc EXCEPT ![t] = "done"]
  /\ UNCHANGED <<corpus, args, core_keywords, todo, image_file, text, keywords,
                 filtered_images, rake, pdfs, videos, image_keywords, calls>>

\* ------------------------------------------------------------------------
\* filter_images_by_query
\* ------------------------------------------------------------------------

\* A direct call filter_images_by_query("images/", query).
CallFilter(t) ==
  /\ pc[t] = "idle"
  /\ \E q \in Queries :
       args' = [args EXCEPT ![t] =
                  [route |-> "direct", query |-> q, youtube_api_key |-> "",
                   image_dir |-> DefaultImageDir]]
  /\ pc' = [pc EXCEPT ![t] = "filter"]
  /\ UNCHANGED <<corpus, core_keywords, todo, image_file, text, keywords,
                 filtered_images, rake, pdfs, videos, image_keywords, response, calls>>

\* The same, by one of two concurrent threads.
CallFilterConc(t) ==
  /\ pc[t] = "idle"
  /\ \E q \in ConcQueries :
       args' = [args EXCEPT ![t] =
                  [route |-> "direct", query |-> q, youtube_api_key |-> "",
                   image_dir |-> DefaultImageDir]]
  /\ pc' = [pc EXCEPT ![t] = "filter"]
  /\ UNCHANGED <<corpus, core_keywords, todo, image_file, text, keywords,
                 filtered_images, rake, pdfs, videos, image_keywords, response, calls>>

\* Lines 58-60.
FilterEnter(t) ==
  /\ pc[t] = "filter"
  /\ core_keywords' = [core_keywords EXCEPT ![t] = preprocess_query(args[t].query)]
  /\ filtered_images' = [filtered_images EXCEPT ![MapOwner(t)] = EmptyMap]
  /\ calls' = [calls EXCEPT ![t] =
                 @ \o <<Call("filter_images_by_query", <<>>, <<>>, <<>>),
                        Call("preprocess_query", <<>>, args[t].query,
                             preprocess_query(args[t].query))>>]
  /\ pc' = [pc EXCEPT ![t] = "exists"]
  /\ UNCHANGED <<corpus, args, todo, image_file, text, keywords, rake, pdfs,
                 videos, image_keywords, response>>

\* Lines 62-66: the error value when the path does not exist; else
\* os.listdir, which raises on a path that is no directory.
CheckDir(t) ==
  /\ pc[t] = "exists"
  /\ calls' = [calls EXCEPT ![t] = Append(@, Call("os.path.exists", <<>>, <<>>, <<>>))]
  /\ IF ~DirExists(args[t].image_dir)
       THEN /\ image_keywords' = [image_keywords EXCEPT ![t] =
                                    [error |-> TRUE, set |-> TRUE, images |-> EmptyMap]]
            /\ pc' = [pc EXCEPT ![t] = Continue(t)]
            /\ UNCHANGED todo
       ELSE IF PathKind(args[t].image_dir) = "dir"
         THEN /\ todo' = [todo EXCEPT ![t] = DOMAIN corpus]
              /\ pc' = [pc EXCEPT ![t] = "loop"]
              /\ UNCHANGED image_keywords
         ELSE /\ pc' = [pc EXCEPT ![t] = "raised"]
              /\ UNCHANGED <<todo, image_keywords>>
  /\ UNCHANGED <<corpus, args, core_keywords, image_file, text, keywords,
                 filtered_images, rake, pdfs, videos, response>>

\* Lines 66-68: the next entry, in whatever order os.listdir gave them.
LoopNext(t) ==
  /\ pc[t] = "loop"
  /\ \E f \in todo[t] :
       /\ todo' = [todo EXCEPT ![t] = @ \ {f}]
       /\ IF IsImageFile(f)
            THEN /\ image_file' = [image_file EXCEPT ![t] = f]
                 /\ pc' = [pc EXCEPT ![t] = "extract"]
            ELSE UNCHANGED <<image_file, pc>>
  /\ UNCHANGED <<corpus, args, core_keywords, text, keywords, filtered_images,
                 rake, pdfs, videos, image_keywords, response, calls>>

\* Line 77.
LoopEnd(t) ==
  /\ pc[t] = "loop"
  /\ todo[t] = {}
  /\ image_keywords' = [image_keywords EXCEPT ![t] =
                          [error |-> FALSE, set |-> TRUE,
                           images |-> filtered_images[MapOwner(t)]]]
  /\ pc' = [pc EXCEPT ![t] = Continue(t)]
  /\ UNCHANGED <<corpus, args, core_keywords, todo, image_file, text, keywords,
                 filtered_images, rake, pdfs, videos, response, calls>>

\* Lines 45-47 and 50: the text; no keywords when it is blank, else a new Rake.
ExtractText(t) ==
  /\ pc[t] = "extract"
  /\ LET r == extract_text_from_image(corpus[image_file[t]])
     IN IF r.raised
          THEN /\ pc' = [pc EXCEPT ![t] = "raised"]
               /\ UNCHANGED <<text, keywords, rake>>
          ELSE /\ text' = [text EXCEPT ![t] = r.text]
               /\ IF StripNonEmpty(r.text)
                    THEN /\ rake' = [rake EXCEPT ![RakeOwner(t)] = FreshRake]
                         /\ pc' = [pc EXCEPT ![t] = "rake_extract"]
                         /\ UNCHANGED keywords
                    ELSE /\ keywords' = [keywords EXCEPT ![t] = <<>>]
                         /\ pc' = [pc EXCEPT ![t] = "match"]
                         /\ UNCHANGED rake
  /\ UNCHANGED <<corpus, args, core_keywords, todo, image_file, filtered_images,
                 pdfs, videos, image_keywords, response, calls>>

\* Line 48.
RakeExtract(t) ==
  /\ pc[t] = "rake_extract"
  /\ rake' = [rake EXCEPT ![RakeOwner(t)] =
                [built |-> TRUE, ranked_phrases |-> RankedPhrases(text[t])]]
  /\ pc' = [pc EXCEPT ![t] = "rake_get"]
  /\ UNCHANGED <<corpus, args, core_keywords, todo, image_file, text, keywords,
                 filtered_images, pdfs, videos, image_keywords, response, calls>>

\* Line 49.
RakeGet(t) ==
  /\ pc[t] = "rake_get"
  /\ keywords' = [keywords EXCEPT ![t] = rake[RakeOwner(t)].ranked_phrases]
  /\ pc' = [pc EXCEPT ![t] = "match"]
  /\ UNCHANGED <<corpus, args, core_keywords, todo, image_file, text, rake,
                 filtered_images, pdfs, videos, image_keywords, response, calls>>

\* Lines 69-76: the keywords are back; the match test and the entry.
Match(t) ==
  /\ pc[t] = "match"
  /\ calls' = [calls EXCEPT ![t] =
                 @ \o <<Call("extract_keywords_from_image", image_file[t], text[t], keywords[t]),
                        Call("match", image_file[t], <<>>, <<>>)>>]
  /\ IF AnyMatch(core_keywords[t], keywords[t])
       THEN filtered_images' =
              [filtered_images EXCEPT ![MapOwner(t)] =
                 (image_file[t] :> [image_path |-> ImagePath(image_file[t]),
                                    keywords |-> keywords[t]]) @@ @]
       ELSE UNCHANGED filtered_images
  /\ pc' = [pc EXCEPT ![t] = "loop"]
  /\ UNCHANGED <<corpus, args, core_keywords, todo, image_file, text, keywords,
                 rake, pdfs, videos, image_keywords, response>>

FilterStep(t) ==
  \/ FilterEnter(t)
  \/ CheckDir(t)
  \/ LoopNext(t)
  \/ LoopEnd(t)
  \/ ExtractText(t)
  \/ RakeExtract(t)
  \/ RakeGet(t)
  \/ Match(t)

\* ------------------------------------------------------------------------
\* Specifications
\* ------------------------------------------------------------------------

Next ==
  \E t \in Threads :
    \/ Request(t)
    \/ Validate(t)
    \/ Scholar(t)
    \/ Youtube(t)
    \/ FilterStep(t)
    \/ Respond(t)
    \/ Abort(t)

Spec == Init /\ [][Next]_vars

NextFilter == \E t \in Threads : CallFilter(t) \/ FilterStep(t)

SpecFilter == InitFilter /\ [][NextFilter]_vars

NextConc == \E t \in Threads : CallFilterConc(t) \/ FilterStep(t)

SpecConc == InitConc /\ [][NextConc]_vars

\* ------------------------------------------------------------------------
\* Properties
\* ------------------------------------------------------------------------

CallsOf(t, op) == {calls[t][i] : i \in {k \in 1..Len(calls[t]) : calls[t][k].op = op}}

ExtractCalls(t) == CallsOf(t, "extract_keywords_from_image")

Entered(t) == pc[t] \notin {"off", "idle", "validate", "scholar", "youtube", "filter"}

Returned(t) == pc[t] = "done" /\ image_keywords[t].set /\ ~image_keywords[t].error

Result(t) == DOMAIN image_keywords[t].images

\* needle is a substring of phrase, letter case ignored.
SubstringIgnoringCase(needle, phrase) == Contains(Lower(phrase), Lower(needle))

\* The directory entries one of whose extracted keyword phrases holds one of
\* the query's tokens.
MatchingDocs(t) ==
  {f \in DOMAIN corpus :
     \E c \in ExtractCalls(t) :
       /\ c.file = f
       /\ \E i \in 1..Len(core_keywords[t]) : \E j \in 1..Len(c.ret) :
            SubstringIgnoringCase(core_keywords[t][i], c.ret[j])}

\* C1: when filter_images_by_query has returned, the documents of its result
\* are exactly those with a keyword phrase that holds a query token as a
\* case-insensitive substring, and the result has as many entries as there
\* are such documents.
C1_ResultIsTheMatchingDocs ==
  \A t \in Threads :
    Returned(t) =>
      /\ Result(t) = MatchingDocs(t)
      /\ Cardinality(Result(t)) = Cardinality(MatchingDocs(t))
      /\ \A f \in Result(t) :
           \E c \in ExtractCalls(t) :
             c.file = f /\ image_keywords[t].images[f].keywords = c.ret

\* C1's case: two scanned documents with keywords, exactly one in the result.
C1_Witness ==
  /\ Returned("t1")
  /\ Cardinality(Result("t1")) = 1
  /\ \A f \in {f_a, f_B} : \E c \in ExtractCalls("t1") : c.file = f /\ c.ret # <<>>

\* The query is written with stopwords only.
OnlyStopwords(q) ==
  LET ws == SplitWhitespace(Lower(q), <<>>, <<>>)
  IN ws # <<>> /\ \A i \in 1..Len(ws) : ws[i] \in english_stop_words

\* C2: for a query of stopwords only, preprocess_query returns no token and
\* filter_images_by_query returns no document.
C2_StopwordQueryGivesNothing ==
  \A t \in Threads :
    Entered(t) /\ OnlyStopwords(args[t].query) =>
      /\ core_keywords[t] = <<>>
      /\ Returned(t) => Result(t) = {}

\* The image files whose extracted text is empty or whitespace only.
BlankDocs ==
  {f \in DOMAIN corpus :
     IsImageFile(f) /\ (~corpus[f].ok \/ ~StripNonEmpty(corpus[f].text))}

\* C3: a document with empty or blank text gets the empty keyword list and
\* nothing raises; the scan still visits it, never reports it matched, and
\* returns.
C3_BlankTextNeverMatches ==
  \A t \in Threads :
    /\ pc[t] # "raised"
    /\ \A c \in ExtractCalls(t) : ~StripNonEmpty(c.text) => c.ret = <<>>
    /\ Returned(t) =>
         \A f \in BlankDocs :
           /\ \E c \in ExtractCalls(t) : c.file = f /\ c.ret = <<>>
           /\ f \notin Result(t)

\* C3's case: a.png holds whitespace only, the scan returned, B.JPG matched.
C3_Witness ==
  /\ Returned("t1")
  /\ corpus[f_a].ok /\ corpus[f_a].text # <<>> /\ f_a \in BlankDocs
  /\ core_keywords["t1"] # <<>>
  /\ Result("t1") = {f_B}

\* The image files on which text extraction throws.
FailingDocs == {f \in DOMAIN corpus : IsImageFile(f) /\ ~corpus[f].ok}

\* C4: a document whose text extraction throws gets the empty text, the scan
\* goes on over every other document, and each of those that matches the
\* query is in the result.
C4_ExtractionFailureIsIsolated ==
  \A t \in Threads :
    /\ pc[t] # "raised"
    /\ \A c \in ExtractCalls(t) : c.file \in FailingDocs => c.text = <<>>
    /\ pc[t] = "done" /\ FailingDocs # {} =>
         /\ Returned(t)
         /\ \A g \in DOMAIN corpus :
              IsImageFile(g) =>
                \E c \in ExtractCalls(t) :
                  /\ c.file = g
                  /\ (\E i \in 1..Len(core_keywords[t]) : \E j \in 1..Len(c.ret) :
                        SubstringIgnoringCase(core_keywords[t][i], c.ret[j]))
                     => g \in Result(t)

\* C4's case: extraction threw on a.png, which the scan visited first, and
\* B.JPG, visited after it, is in the result.
C4_Witness ==
  /\ Returned("t1")
  /\ FailingDocs = {f_a}
  /\ \E i, j \in 1..Len(calls["t1"]) :
       /\ i < j
       /\ calls["t1"][i].op = "extract_keywords_from_image" /\ calls["t1"][i].file = f_a
       /\ calls["t1"][j].op = "extract_keywords_from_image" /\ calls["t1"][j].file = f_B
  /\ f_B \in Result("t1")

TokensLowerNoStopword(t) ==
  \A i \in 1..Len(core_keywords[t]) :
    /\ core_keywords[t][i] = Lower(core_keywords[t][i])
    /\ core_keywords[t][i] \notin english_stop_words

\* C5 as claimed: the returned tokens are lower-cased, none is a stopword,
\* and none occurs twice.
C5_TokensAreASet ==
  \A t \in Threads :
    Entered(t) =>
      /\ TokensLowerNoStopword(t)
      /\ \A i, j \in 1..Len(core_keywords[t]) :
           core_keywords[t][i] = core_keywords[t][j] => i = j

\* C5 as amended: the returned tokens are lower-cased, none is a stopword,
\* and each occurs as many times as among the query's tokens.
C5_TokensAreAListWithRepeats ==
  \A t \in Threads :
    Entered(t) =>
      /\ TokensLowerNoStopword(t)
      /\ LET toks == word_tokenize(Lower(args[t].query))
         IN \A i \in 1..Len(toks) :
              toks[i] \notin english_stop_words =>
                CountIn(core_keywords[t], toks[i]) = CountIn(toks, toks[i])

\* C5's case: the query "Cat Cat" gave the token cat twice.
C5_Witness ==
  /\ Entered("t1")
  /\ args["t1"].query = JoinSpace(<<w_Cat, w_Cat>>)
  /\ core_keywords["t1"] = <<w_cat, w_cat>>

MatcherOps == {"preprocess_query", "extract_keywords_from_image", "match"}

MissingDir(t) == args[t].route = "search" /\ PathKind(args[t].image_dir) = "missing"

\* C6 as claimed: in a request whose image directory does not exist, no
\* matcher operation runs.
C6_MatcherNeverInvoked ==
  \A t \in Threads :
    MissingDir(t) => \A i \in 1..Len(calls[t]) : calls[t][i].op \notin MatcherOps

\* C6 as amended: in such a request the filter returns the error value, no
\* keyword extraction and no match test runs, and query normalization runs
\* exactly once, before the check of the directory.
C6_OnlyNormalizationRuns ==
  \A t \in Threads :
    MissingDir(t) =>
      /\ \A i \in 1..Len(calls[t]) :
           calls[t][i].op \notin {"extract_keywords_from_image", "match"}
      /\ \A i, j \in 1..Len(calls[t]) :
           /\ calls[t][i].op = "preprocess_query" /\ calls[t][j].op = "preprocess_query" => i = j
           /\ calls[t][i].op = "os.path.exists" =>
                \E k \in 1..(i - 1) : calls[t][k].op = "preprocess_query"
      /\ pc[t] = "done" /\ response[t].status # 400 =>
           /\ response[t].status = 200
           /\ image_keywords[t].set /\ image_keywords[t].error
           /\ \E i \in 1..Len(calls[t]) : calls[t][i].op = "os.path.exists"

\* C6's case: a request with a missing directory was answered with the
\* filter's error value.
C6_Witness ==
  /\ MissingDir("t1")
  /\ pc["t1"] = "done"
  /\ response["t1"].status = 200
  /\ image_keywords["t1"].error
  /\ "preprocess_query" \in {calls["t1"][i].op : i \in 1..Len(calls["t1"])}

\* What one call returns when it runs alone on the directory.
SoloKeywords(f) ==
  LET r == extract_text_from_image(corpus[f])
  IN IF StripNonEmpty(r.text) THEN RankedPhrases(r.text) ELSE <<>>

SoloResult(q) ==
  [f \in {g \in DOMAIN corpus :
            IsImageFile(g) /\ AnyMatch(preprocess_query(q), SoloKeywords(g))}
     |-> [image_path |-> ImagePath(f), keywords |-> SoloKeywords(f)]]

\* C7: under every interleaving of two calls of filter_images_by_query, each
\* returns what it returns when run alone.
C7_ConcurrentCallsAreIndependent ==
  \A t \in Threads :
    pc[t] = "done" =>
      image_keywords[t] =
        [error |-> FALSE, set |-> TRUE, images |-> SoloResult(args[t].query)]

\* C7's case: two calls with different queries ran interleaved (each entered
\* before the other returned) and returned different non-empty results.
C7_Witness ==
  /\ pc["t1"] = "done" /\ pc["t2"] = "done"
  /\ args["t1"].query # args["t2"].query
  /\ Result("t1") # {} /\ Result("t2") # {}
  /\ Result("t1") # Result("t2")

\* C8: two calls of extract_keywords_from_image that extracted the same text
\* returned the same phrases in the same order, whatever ran in between.
C8_ExtractKeywordsDeterministic ==
  \A t, u \in Threads :
    \A c \in ExtractCalls(t) : \A d \in ExtractCalls(u) :
      c.text = d.text => c.ret = d.ret

\* C8's case: both threads extracted the same non-blank text, and t2 ran
\* an extraction of another non-blank text before it.
C8_Witness ==
  \E i \in 1..Len(calls["t1"]) : \E j, k \in 1..Len(calls["t2"]) :
    /\ j < k
    /\ calls["t1"][i].op = "extract_keywords_from_image"
    /\ calls["t2"][j].op = "extract_keywords_from_image"
    /\ calls["t2"][k].op = "extract_keywords_from_image"
    /\ calls["t1"][i].text = calls["t2"][k].text
    /\ calls["t2"][j].text # calls["t2"][k].text
    /\ Len(calls["t1"][i].ret) > 1
    /\ calls["t2"][j].ret # <<>>

SourceOps == {"search_google_scholar", "search_youtube", "filter_images_by_query"}

IsSourceCall(c) == c.op \in SourceOps

\* The sources a request has called, in order.
SourceCalls(t) ==
  LET cs == SelectSeq(calls[t], IsSourceCall) IN [i \in 1..Len(cs) |-> cs[i].op]

AllSources == <<"search_google_scholar", "search_youtube", "filter_images_by_query">>

\* C9: a request without a query or without an API key ends with status 400
\* and calls no source; a request with both calls each source once, in the
\* order scholar, YouTube, image filter.
C9_ValidationGuardsTheSources ==
  \A t \in Threads :
    args[t].route = "search" /\ pc[t] # "validate" =>
      IF args[t].query = <<>> \/ args[t].youtube_api_key = ""
        THEN pc[t] = "done" /\ response[t].status = 400 /\ SourceCalls(t) = <<>>
        ELSE /\ SourceCalls(t) = SubSeq(AllSources, 1, Len(SourceCalls(t)))
             /\ pc[t] = "done" => SourceCalls(t) = AllSources

\* C9's case: a request with a query and an empty API key was refused.
C9_Witness ==
  /\ pc["t1"] = "done"
  /\ args["t1"].query # <<>> /\ args["t1"].youtube_api_key = ""
  /\ response["t1"].status = 400

\* C10: a request with a query and an API key is answered with the three
\* fields, each source having been queried, whichever source failed.
C10_SourceFailureNeverAborts ==
  \A t \in Threads :
    /\ args[t].route = "search" /\ pc[t] = "done"
    /\ args[t].query # <<>> /\ args[t].youtube_api_key # ""
    => /\ response[t].status = 200
       /\ response[t].fields = {"pdfs", "videos", "image_keywords"}
       /\ pdfs[t].set /\ videos[t].set /\ image_keywords[t].set
       /\ SourceCalls(t) = AllSources

====
